---- MODULE Spec2Model ----
(***************************************************************************)
(* Nature's Way video automation: the row cursor (StateManager), the row   *)
(* provider (GoogleSheetsReader), the script generator, the video producer *)
(* (PictoryVideoCreator), the publisher (SocialPilotPoster), the notifier  *)
(* (ZapierWebhookSender) and the pipeline run that drives one row through  *)
(* them.  The stage operations are translated from src/helpers.py and      *)
(* src/socialpilot_poster.py; the run that sequences them is not part of   *)
(* the source files and follows section 4.6 of the specification.          *)
(***************************************************************************)
EXTENDS Integers, Sequences, FiniteSets, TLC

(***************************************************************************)
(* Bounds of the model.                                                    *)
(***************************************************************************)
\* timestamps handed out by the clock: at most MaxClock saves are attempted
MaxClock == 2
\* largest cursor found in a state file at start-up
MaxInitRow == 3
\* largest number of sheet rows (header included) a read of the sheet returns
MaxSheetRows == 3

(***************************************************************************)
(* Program constants.                                                      *)
(***************************************************************************)
\* "Start from row 2 (skip header)": the default of get_current_row and the
\* value reset_to_start writes
BaseRow == 2
\* "Row 1 is headers"
HeaderRow == 1

Null == "null"

(***************************************************************************)
(* The state file.  kind says what open()/json.load() find there:          *)
(*   missing    no file at state_file                                      *)
(*   corrupt    text json.load cannot parse (an empty or cut-off file)     *)
(*   nonrecord  valid JSON that is no object (a list, a number)            *)
(*   norow      an object without the key current_row                      *)
(*   record     {current_row, last_updated}                                *)
(***************************************************************************)
StateFile(kind, row, stamp) ==
    [kind |-> kind, current_row |-> row, last_updated |-> stamp]

MissingFile == StateFile("missing", 0, 0)
CorruptFile == StateFile("corrupt", 0, 0)
NonRecordFile == StateFile("nonrecord", 0, 0)
NoRowFile == StateFile("norow", 0, 0)

\* what a state file may hold when the program starts
InitialFiles ==
    {MissingFile, CorruptFile, NonRecordFile, NoRowFile}
        \cup {StateFile("record", n, 0) : n \in HeaderRow..MaxInitRow}

Min(a, b) == IF a < b THEN a ELSE b

\* a slice seq[:k]
Take(seq, k) == SubSeq(seq, 1, Min(k, Len(seq)))

\* a returned value, or an exception leaving the function
Return(v) == [raised |-> FALSE, value |-> v]
Raise == [raised |-> TRUE, value |-> 0]

\* The try block of get_current_row: os.path.exists, open, json.load and
\* data.get('current_row', 2).  readOk: open() and read() succeed.
read_state(file, readOk) ==
    IF file.kind # "missing"
    THEN IF ~readOk THEN Raise                      \* open(): OSError
         ELSE IF file.kind = "corrupt" THEN Raise   \* json.load: ValueError
         ELSE IF file.kind = "nonrecord" THEN Raise \* data.get: AttributeError
         ELSE IF file.kind = "norow" THEN Return(BaseRow)
         ELSE Return(file.current_row)
    ELSE Return(BaseRow)

\* Mutation of get_current_row: a failed read falls back to the header row.
get_current_row_from_header(file, readOk) ==
    LET r == read_state(file, readOk)
    IN  IF r.raised THEN Return(HeaderRow) ELSE r

\* Mutation of get_current_row: the except clause is missing.
get_current_row_uncaught(file, readOk) == read_state(file, readOk)

\* StateManager.get_current_row: "except Exception" turns every failure of
\* the try block into the default row.
get_current_row(file, readOk) ==
    LET r == read_state(file, readOk)
    IN  IF r.raised THEN Return(BaseRow) ELSE r

\* How a write of the state file ends.
\*   ok         the record is on disk
\*   open_fails open(state_file, 'w') raises: the file is as it was
\*   dump_fails the file was truncated by open() and json.dump or the close
\*              raises: the file is empty or cut off
WriteOutcomes == {"ok", "open_fails", "dump_fails"}

\* StateManager._save_state: both failures are caught and logged.
_save_state(file, row, stamp, write) ==
    CASE write = "ok" -> StateFile("record", row, stamp)
      [] write = "open_fails" -> file
      [] write = "dump_fails" -> CorruptFile

\* The text json.dump(state_data, f, indent=2) writes, piece by piece: the
\* opening brace, the two members, the closing brace.
Piece(t, v) == [t |-> t, v |-> v]

json_dump(row, stamp) ==
    <<Piece("{", 0), Piece("current_row", row), Piece("last_updated", stamp),
      Piece("}", 0)>>

\* What a later json.load makes of a text on disk: a text that does not end
\* with the closing brace (an empty file, a cut-off one) cannot be parsed.
on_disk(text) ==
    IF text # <<>> /\ text[Len(text)].t = "}"
    THEN StateFile("record", text[2].v, text[3].v)
    ELSE CorruptFile

\* The process dies inside _save_state.  written = -1: before
\* open(state_file, 'w'), the file is as it was; written = k >= 0: after the
\* open truncated the file and k pieces of the text reached the disk.
CrashPoints == -1..Len(json_dump(0, 0))

crash_in_save(file, row, stamp, written) ==
    IF written < 0 THEN file
    ELSE on_disk(SubSeq(json_dump(row, stamp), 1, written))

\* StateManager.increment_row: the file after the call and the rows it logs
\* ("Advanced from row current_row to row new_row").
increment_row(file, readOk, stamp, write) ==
    LET current_row == get_current_row(file, readOk).value
        new_row == current_row + 1
    IN  [file |-> _save_state(file, new_row, stamp, write),
         current_row |-> current_row, new_row |-> new_row]

\* StateManager.reset_to_start
reset_to_start(file, stamp, write) ==
    _save_state(file, BaseRow, stamp, write)

(***************************************************************************)
(* GoogleSheetsReader.                                                     *)
(***************************************************************************)
\* What _call_sheets_tool hands back: None ("none"), a result whose success
\* is false ("fail"), or the sheet: len(values) rows, header included, of
\* which the rows in filled hold cells and the others are empty lists.
SheetResult(kind, len, filled) == [kind |-> kind, len |-> len, filled |-> filled]

SheetResults ==
    {SheetResult("none", 0, {}), SheetResult("fail", 0, {})}
        \cup UNION {{SheetResult("ok", n, f) : f \in SUBSET (2..n)} :
                        n \in 0..MaxSheetRows}

\* the last populated row of a sheet (1: the header alone, or nothing)
LastPopulated(res) ==
    IF res.kind = "ok" /\ res.filled # {}
    THEN CHOOSE r \in res.filled : \A q \in res.filled : q <= r
    ELSE 1

\* a key a dictionary does not hold
Missing == "<missing>"

\* A product record: the row it was built from and the three fields the
\* script is made of.
ProductData(present, row, product_name, benefits, key_ingredient) ==
    [present |-> present, row |-> row, product_name |-> product_name,
     benefits |-> benefits, key_ingredient |-> key_ingredient]

NoProduct == ProductData(FALSE, 0, Missing, Missing, Missing)

\* the record get_product_data builds: the three fields are always set
\* from the title
Product(row) == ProductData(TRUE, row, "name", "benefits", "ingredient")

\* product records in which any of the three fields may be missing
ProductRecords ==
    {ProductData(TRUE, BaseRow, n, b, k) :
        n \in {Missing, "name"}, b \in {Missing, "benefits"},
        k \in {Missing, "ingredient"}}

\* Mutation of get_product_data: the check "row > len(values)" is dropped
\* and a row without cells still yields a record.
get_product_data_unchecked(row, res) ==
    IF res.kind # "ok" THEN NoProduct
    ELSE IF res.len < 2 THEN NoProduct
    ELSE Product(IF row < 2 THEN 2 ELSE row)

\* GoogleSheetsReader.get_product_data: the record of the row, NoProduct for
\* None.  The record keeps the row it was built from (values[row - 1]).
get_product_data(row, res) ==
    IF res.kind # "ok" THEN NoProduct               \* not result / not success
    ELSE IF res.len < 2 THEN NoProduct              \* header + 1 data row
    ELSE IF row > res.len THEN NoProduct            \* row doesn't exist
    ELSE LET r == IF row < 2 THEN 2 ELSE row        \* row 1 is headers
         IN  IF r \notin res.filled THEN NoProduct  \* not data_row
             ELSE Product(r)

(***************************************************************************)
(* GoogleSheetsReader._extract_benefits_from_title.  A title is chunks of  *)
(* text (no separator inside, no blank at either end, possibly empty)      *)
(* with one separator between two neighbours.  A chunk has a length and    *)
(* holds a benefit keyword or not.                                         *)
(***************************************************************************)
\* largest number of chunks of a title
MaxChunks == 2

Separators == {"slash", "en_dash", "hyphen", "bar"}

ChunkLens == {0, 10, 20, 21, 150}

Chunk(len, kw) == [len |-> len, kw |-> kw]

Chunks ==
    {Chunk(0, FALSE)} \cup {Chunk(n, k) : n \in ChunkLens \ {0}, k \in BOOLEAN}

Title(chunks, seps) == [chunks |-> chunks, seps |-> seps]

EmptyTitle == Title(<<>>, <<>>)

Titles ==
    {EmptyTitle}
        \cup UNION {{Title(c, s) : c \in [1..n -> Chunks],
                                   s \in [1..(n - 1) -> Separators]} :
                        n \in 1..MaxChunks}

RECURSIVE SumLen(_, _, _)
SumLen(chunks, a, b) ==
    IF a > b THEN 0 ELSE chunks[a].len + SumLen(chunks, a + 1, b)

\* len(title): every separator is one character
TitleLen(title) ==
    SumLen(title.chunks, 1, Len(title.chunks)) + Len(title.seps)

\* A piece of the title: the chunks first..last and what stands between
\* them; the empty string is EmptyText.
Text(first, last) == [first |-> first, last |-> last]
EmptyText == Text(0, 0)

\* str.strip() of the chunks a..b: separators turned into blanks and empty
\* chunks at either end fall away
strip(title, a, b) ==
    LET full == {i \in a..b : title.chunks[i].len > 0}
    IN  IF full = {} THEN EmptyText
        ELSE Text(CHOOSE i \in full : \A j \in full : i <= j,
                  CHOOSE i \in full : \A j \in full : j <= i)

\* len(sentence): a separator inside the text counts one character, as the
\* blank that replaced it does
text_len(title, text) ==
    IF text = EmptyText THEN 0
    ELSE SumLen(title.chunks, text.first, text.last) + (text.last - text.first)

\* any(keyword.lower() in sentence.lower() for keyword in benefits_keywords):
\* no keyword holds a blank or a separator
has_keyword(title, text) ==
    /\ text # EmptyText
    /\ \E i \in text.first..text.last : title.chunks[i].kw

\* title.replace('/', ' ').replace(en dash, ' ').replace('-', ' ').split('|')
\* from chunk a on: the title is cut at the bars alone
RECURSIVE split_bar(_, _)
split_bar(title, a) ==
    LET n == Len(title.chunks)
    IN  IF a > n THEN <<>>
        ELSE LET b == CHOOSE j \in a..n :
                          /\ j = n \/ title.seps[j] = "bar"
                          /\ \A i \in a..(j - 1) : title.seps[i] # "bar"
             IN  <<Text(a, b)>> \o split_bar(title, b + 1)

\* the two default sentences of _extract_benefits_from_title
DefaultNoTitle == "provides excellent nutrition for your plants"
DefaultNoBenefit ==
    "provides excellent nutrition and support for healthy plant growth"

\* a benefits string: the parts joined with ". ", or a default sentence
Benefits(parts, default) == [parts |-> parts, default |-> default]

\* GoogleSheetsReader._extract_benefits_from_title
_extract_benefits_from_title(title) ==
    IF TitleLen(title) = 0                          \* not title
    THEN Benefits(<<>>, DefaultNoTitle)
    ELSE LET sentences == split_bar(title, 1)
             stripped == [i \in 1..Len(sentences) |->
                             strip(title, sentences[i].first, sentences[i].last)]
             Kept(sentence) ==
                 /\ has_keyword(title, sentence)
                 /\ text_len(title, sentence) > 20
                 /\ text_len(title, sentence) < 150
             benefit_parts == SelectSeq(stripped, Kept)
         IN  IF benefit_parts # <<>>
             THEN Benefits(Take(benefit_parts, 2), "")
             ELSE Benefits(<<>>, DefaultNoBenefit)

(***************************************************************************)
(* ScriptGenerator.                                                        *)
(***************************************************************************)
Scene(n, d) == [scene_number |-> n, duration |-> d]

NoScript ==
    [present |-> FALSE, scenes |-> <<>>, total_duration |-> 0,
     product_name |-> Missing, education |-> <<>>]

\* product_data.get(key, default)
Get(value, default) == IF value = Missing THEN default ELSE value

\* The script of generate_script for the three values it read:
\* education is the first template filled with them.
Script(product_name, benefits, key_ingredient) ==
    [present |-> TRUE,
     scenes |-> <<Scene(1, 7), Scene(2, 18), Scene(3, 5)>>,
     total_duration |-> 30,
     product_name |-> product_name,
     education |-> <<product_name, key_ingredient, benefits>>]

\* Mutation of generate_script: the fields are read with product_data[key],
\* and the KeyError of a missing one ends in the except clause.
generate_script_indexed(product) ==
    IF ~product.present THEN NoScript
    ELSE IF Missing \in {product.product_name, product.benefits,
                         product.key_ingredient}
    THEN NoScript
    ELSE Script(product.product_name, product.benefits, product.key_ingredient)

\* ScriptGenerator.generate_script: three scenes, the first hook and the
\* first education template; a missing field takes its default.  A
\* product_data that is no dictionary (None) ends in the except clause,
\* which returns {}.
generate_script(product) ==
    IF ~product.present THEN NoScript
    ELSE Script(Get(product.product_name, "our organic product"),
                Get(product.benefits, "amazing benefits for your plants"),
                Get(product.key_ingredient, "natural ingredients"))

(***************************************************************************)
(* PictoryVideoCreator.                                                    *)
(***************************************************************************)
\* _wait_for_video_completion(max_wait_time = 600)
MaxWaitTime == 600
\* time.sleep(30) between two status checks
PollInterval == 30

\* video urls: None, the empty string, a mock url of test mode, a url of the
\* service
EmptyUrl == ""
MockUrl == "https://example.com/videos/mock.mp4"
LiveUrl == "https://pictory/videos/job.mp4"

\* Python's truth value of a url
Truthy(url) == url \notin {Null, EmptyUrl}

NoVideo == [present |-> FALSE, video_id |-> Null, video_url |-> Null, status |-> "none"]
Video(id, url, status) ==
    [present |-> TRUE, video_id |-> id, video_url |-> url, status |-> status]

\* answers of POST /oauth2/token: 200 with a token, 200 without one, another
\* status, an exception of the request
TokenAnswers == {"token", "no_token", "status", "exception"}

\* PictoryVideoCreator._get_access_token: its return value and the token the
\* object holds afterwards.
_get_access_token(token, answer) ==
    CASE answer = "token" -> [ok |-> TRUE, access_token |-> "token"]
      [] answer = "no_token" -> [ok |-> TRUE, access_token |-> Null]
      [] answer = "status" -> [ok |-> FALSE, access_token |-> token]
      [] answer = "exception" -> [ok |-> FALSE, access_token |-> token]

\* answers of POST /video/create: 200/201 with a job id, 200/201 without
\* one, another status, an exception of the request
CreateAnswers == {"job", "no_job", "status", "exception"}

\* answers of GET /jobs/{id}: 200 with status completed and a videoURL that
\* is a url, the empty string or absent; 200 with status failed; 200 with
\* another status; another http status; an exception
JobAnswers ==
    {"completed_url", "completed_empty", "completed_none", "failed",
     "in_progress", "status", "exception"}

\* PictoryVideoCreator.create_video up to the poll loop.  done: the call has
\* returned video (NoVideo for None); otherwise the job was submitted and
\* _wait_for_video_completion runs.
create_video(test_mode, encrypted, token, tokenAnswer, createAnswer) ==
    IF test_mode
    THEN [done |-> TRUE, video |-> Video("test_video", MockUrl, "completed"),
          access_token |-> token, requests |-> <<>>]
    ELSE IF encrypted
    THEN [done |-> TRUE, video |-> Video("encrypted_key_test", MockUrl, "completed"),
          access_token |-> token, requests |-> <<>>]
    ELSE LET auth == IF token = Null
                     THEN _get_access_token(token, tokenAnswer)
                     ELSE [ok |-> TRUE, access_token |-> token]
             reqs == IF token = Null THEN <<"oauth2/token">> ELSE <<>>
         IN  IF ~auth.ok
             THEN [done |-> TRUE, video |-> NoVideo,
                   access_token |-> auth.access_token, requests |-> reqs]
             ELSE [done |-> createAnswer # "job", video |-> NoVideo,
                   access_token |-> auth.access_token,
                   requests |-> Append(reqs, "video/create")]

\* The dictionary create_video returns after the poll loop:
\* 'completed' if video_url else 'processing'.
video_result(video_id, video_url) ==
    Video(video_id, video_url, IF Truthy(video_url) THEN "completed" ELSE "processing")

\* how long a status request takes to return: no time, or (requests.get is
\* given no timeout) as long as the whole wait
Latencies == {0, MaxWaitTime}

\* Mutation of poll_once: time.sleep(30) is missing.
poll_once_no_sleep(elapsed, answer, latency) ==
    CASE answer = "completed_url" ->
            [returned |-> TRUE, url |-> LiveUrl, elapsed |-> elapsed + latency]
      [] answer = "completed_empty" ->
            [returned |-> TRUE, url |-> EmptyUrl, elapsed |-> elapsed + latency]
      [] answer = "completed_none" ->
            [returned |-> TRUE, url |-> Null, elapsed |-> elapsed + latency]
      [] answer = "failed" ->
            [returned |-> TRUE, url |-> Null, elapsed |-> elapsed + latency]
      [] OTHER ->
            [returned |-> FALSE, url |-> Null, elapsed |-> elapsed + latency]

\* One pass of the loop of _wait_for_video_completion, entered with
\* time.time() - start_time = elapsed < max_wait_time.  latency: how long
\* the request took.  returned: the function returns url; otherwise it
\* sleeps and tests the loop condition again.
poll_once(elapsed, answer, latency) ==
    CASE answer = "completed_url" ->
            [returned |-> TRUE, url |-> LiveUrl, elapsed |-> elapsed + latency]
      [] answer = "completed_empty" ->
            [returned |-> TRUE, url |-> EmptyUrl, elapsed |-> elapsed + latency]
      [] answer = "completed_none" ->
            [returned |-> TRUE, url |-> Null, elapsed |-> elapsed + latency]
      [] answer = "failed" ->
            [returned |-> TRUE, url |-> Null, elapsed |-> elapsed + latency]
      [] OTHER ->
            [returned |-> FALSE, url |-> Null,
             elapsed |-> elapsed + latency + PollInterval]

(***************************************************************************)
(* SocialPilotPoster.                                                      *)
(***************************************************************************)
\* largest number of accounts GET /accounts lists
MaxAccounts == 4
\* post_video posts to accounts[:3]
AccountCap == 3

\* auth_methods of get_accounts, in the order of the list
AuthMethods == <<"Bearer", "API-Key", "X-API-Key">>

\* One request of a call, as the service saw it: the endpoint, the
\* Authorization scheme of its headers and the answer it was given (for
\* GET /accounts: "ok" for a 200, "fail" for another status or an exception).
\* accounts: the account ids a post is addressed to.
Request(req, auth, answer) ==
    [req |-> req, auth |-> auth, answer |-> answer, accounts |-> <<>>]

\* Answers of GET /accounts: 200 with a data list of n accounts, of which
\* account number noid (0: none) has no 'id'; another status; an exception
\* of the request or of response.json().
AccountsAnswer(kind, n, noid) == [kind |-> kind, n |-> n, noid |-> noid]

AccountsAnswers ==
    {AccountsAnswer("status", 0, 0), AccountsAnswer("exception", 0, 0)}
        \cup UNION {{AccountsAnswer("ok", n, k) : k \in {0, 1, MaxAccounts} \cap 0..n} :
                        n \in 0..MaxAccounts}

\* the accounts of an answer: a list of records
Accounts(answer) ==
    [i \in 1..answer.n |-> [id |-> i, has_id |-> i # answer.noid]]

\* The loop of get_accounts from method number i on; answers[i] is the
\* answer to the request made with method i.
RECURSIVE try_auth_methods(_, _, _, _)
try_auth_methods(i, answers, headers, requests) ==
    IF i > Len(AuthMethods)
    THEN [accounts |-> <<>>, headers |-> headers, requests |-> requests]
    ELSE LET sent == Append(requests,
                            Request("accounts", AuthMethods[i],
                                    IF answers[i].kind = "ok" THEN "ok" ELSE "fail"))
         IN  IF answers[i].kind = "ok"
             THEN [accounts |-> Accounts(answers[i]),
                   headers |-> AuthMethods[i],      \* self.headers = headers
                   requests |-> sent]
             ELSE try_auth_methods(i + 1, answers, headers, sent)

\* The answers of the three requests such that an answer the loop never
\* asks for is "status".
AccountsAnswerLists ==
    {a \in [1..Len(AuthMethods) -> AccountsAnswers] :
        \A i, j \in 1..Len(AuthMethods) :
            (i < j /\ a[i].kind = "ok") => a[j] = AccountsAnswer("status", 0, 0)}

\* SocialPilotPoster.get_accounts
get_accounts(answers, headers) ==
    try_auth_methods(1, answers, headers, <<>>)

\* Answers of POST /media: 200 with data.id, 200 without it, another status,
\* an exception.
UploadAnswers == {"id", "no_id", "status", "exception"}

\* SocialPilotPoster.upload_media.  opens: open(video_path, 'rb') finds a
\* file.  The request goes out with "Bearer" whatever get_accounts found.
upload_media(opens, answer) ==
    IF ~opens
    THEN [media_id |-> Null, requests |-> <<>>]
    ELSE [media_id |-> IF answer = "id" THEN "media" ELSE Null,
          requests |-> <<Request("media", "Bearer", answer)>>]

\* Answers of POST /posts: 200 with an object without the key "error", 200
\* with an object that has it, 200 with JSON that is no object, another
\* status, an exception.
PostAnswers == {"ok", "error_key", "non_record", "status", "exception"}

\* SocialPilotPoster.create_post: what it returns and the request it made
\* with self.headers for the account ids in accounts.
create_post(accounts, headers, answer) ==
    [post_result |->
        CASE answer = "ok" -> "data"
          [] answer = "error_key" -> "error"
          [] answer = "non_record" -> "list"
          [] answer = "status" -> "error"      \* {"error": "HTTP ..."}
          [] answer = "exception" -> "error",  \* {"error": str(e)}
     requests |-> <<[Request("posts", headers, answer) EXCEPT
                        !.accounts = accounts]>>]

\* a returned outcome of post_video
Outcome(status, message, posts, media_id) ==
    [raised |-> FALSE, status |-> status, message |-> message, posts |-> posts,
     media_id |-> media_id, accounts_used |-> Len(posts)]

\* an exception leaving post_video
OutcomeRaised == [raised |-> TRUE, status |-> "none", message |-> "",
                  posts |-> <<>>, media_id |-> Null, accounts_used |-> 0]

NoOutcome == [raised |-> FALSE, status |-> "none", message |-> "",
              posts |-> <<>>, media_id |-> Null, accounts_used |-> 0]

\* Mutation of no_accounts: the check of the accounts is dropped.
no_accounts_unchecked(accounts) == FALSE

\* "if not accounts" of post_video
no_accounts(accounts) == accounts = <<>>

\* Mutation of first_accounts: the cap is missing.
first_accounts_uncapped(accounts) == accounts

\* accounts[:3] of post_video
first_accounts(accounts) == Take(accounts, AccountCap)

\* Mutation of no_media: the check of the media id is dropped.
no_media_unchecked(media_id) == FALSE

\* "if not media_id" of post_video
no_media(media_id) == media_id = Null

\* Mutation of post_failed: the check of the post is dropped.
post_failed_unchecked(post_result) == FALSE

\* "if "error" in post_result" of post_video
post_failed(post_result) == post_result = "error"

\* SocialPilotPoster.post_video: the outcome, the number of accounts
\* get_accounts found, self.headers afterwards and the requests made, in
\* order.
post_video(opens, answers, uploadAnswer, postAnswer, headers) ==
    LET found == get_accounts(answers, headers)
        accounts == found.accounts
        Returned(outcome, requests) ==
            [outcome |-> outcome, found |-> Len(accounts),
             headers |-> found.headers, requests |-> requests]
    IN  IF no_accounts(accounts)
        THEN Returned(Outcome("error", "no accounts", <<>>, Null), found.requests)
        ELSE
        LET up == upload_media(opens, uploadAnswer)
            reqs2 == found.requests \o up.requests
        IN  IF no_media(up.media_id)
            THEN Returned(Outcome("error", "upload failed", <<>>, Null), reqs2)
            ELSE IF \E i \in 1..Len(first_accounts(accounts)) : ~accounts[i].has_id
            THEN Returned(OutcomeRaised, reqs2)  \* acc['id']: KeyError
            ELSE
            LET account_ids ==
                    [i \in 1..Len(first_accounts(accounts)) |-> accounts[i].id]
                post == create_post(account_ids, found.headers, postAnswer)
                reqs3 == reqs2 \o post.requests
                \* for i, account in enumerate(accounts[:3])
                results ==
                    [i \in 1..Len(first_accounts(accounts)) |->
                        [account |-> accounts[i].id, index |-> i - 1]]
            IN  IF post_failed(post.post_result)
                THEN Returned(Outcome("error", "post failed", <<>>, Null), reqs3)
                ELSE IF post.post_result = "list"
                THEN Returned(OutcomeRaised, reqs3)  \* post_result.get: AttributeError
                ELSE Returned(Outcome("success", "posted", results, up.media_id),
                              reqs3)

(***************************************************************************)
(* ZapierWebhookSender.                                                    *)
(***************************************************************************)
\* webhook_url: empty, the placeholder with YOUR_WEBHOOK_ID, or a real url
WebhookUrls == {"unset", "placeholder", "configured"}

\* answers of the POST to the webhook: 200, another status, a timeout or
\* another exception
WebhookAnswers == {"200", "status", "exception"}

\* Mutation of send_to_zapier: the except clause is missing.
send_to_zapier_uncaught(webhook_url, answer) ==
    IF webhook_url \in {"unset", "placeholder"}
    THEN [raised |-> FALSE, ret |-> FALSE, requested |-> FALSE]
    ELSE [raised |-> answer = "exception", ret |-> answer = "200",
          requested |-> TRUE]

\* ZapierWebhookSender.send_to_zapier: the boolean it returns and whether a
\* request was made; the timeout and every other exception of the request
\* end in the except clause.
send_to_zapier(webhook_url, answer) ==
    IF webhook_url \in {"unset", "placeholder"}
    THEN [raised |-> FALSE, ret |-> FALSE, requested |-> FALSE]
    ELSE [raised |-> FALSE, ret |-> answer = "200", requested |-> TRUE]

(***************************************************************************)
(* The pipeline run (specification, section 4.6):                          *)
(*   READ_CURSOR -> FETCH_ROW -> SYNTHESIZE_SCRIPT -> PRODUCE_VIDEO ->     *)
(*   PUBLISH -> NOTIFY -> ADVANCE_CURSOR                                   *)
(* A run is one invocation of the program: it builds its StateManager,     *)
(* reader, video creator, poster and notifier, so that the state file is   *)
(* the only state that outlives it (specification, section 5).             *)
(***************************************************************************)
RunIds == {1, 2}

NoNotify ==
    [called |-> FALSE, status |-> "none", webhook_url |-> "unset",
     answer |-> "none", raised |-> FALSE, ret |-> FALSE, requested |-> FALSE]

\* a run that has not read the cursor yet ("idle"), or is never started
\* ("off")
NewRun(pc) ==
    [pc |-> pc,
     row |-> 0,                    \* the cursor READ_CURSOR returned
     start_store |-> MissingFile,  \* the state file READ_CURSOR found
     sheet_len |-> 0,              \* len(values) of the sheet FETCH_ROW read
     sheet_last |-> 0,             \* its last populated row
     product |-> NoProduct,
     script |-> NoScript,
     test_mode |-> FALSE,          \* PictoryVideoCreator.test_mode
     encrypted |-> FALSE,          \* api_key.startswith('AQICA')
     access_token |-> Null,        \* PictoryVideoCreator.access_token
     video |-> NoVideo,
     video_requests |-> <<>>,      \* requests of create_video before the poll loop
     elapsed |-> 0,                \* time.time() - start_time of the poll loop
     last_poll |-> -1,             \* its value when the last status request
                                   \* of the running loop went out
     job_answer |-> "none",        \* the answer the poll loop returned on
     opens |-> FALSE,              \* open(video_path) found a file
     headers |-> Null,             \* SocialPilotPoster.headers
     found |-> 0,                  \* the number of accounts get_accounts returned
     publish |-> NoOutcome,
     requests |-> <<>>,            \* requests of post_video, in order
     notify |-> NoNotify,
     new_row |-> 0,                \* new_row of increment_row, before the save
     stages |-> <<>>,              \* the stages entered, in order
     outcome |-> "none"]           \* noop, error, pending or success

\* the video reference PUBLISH hands to post_video as video_path
video_path(video) == video.video_url

\* Whether open(video_path, 'rb') can find a file: a mock url names a video
\* that was never made; a video of the service may have been fetched to a
\* local file of that name.
CanOpen(path) == IF path = LiveUrl THEN BOOLEAN ELSE {FALSE}

\* The branch after PRODUCE_VIDEO: no result or status failed ends the run
\* with an error, status processing ends it pending, completed goes on to
\* PUBLISH.
after_produce(run, video) ==
    IF ~video.present \/ video.status = "failed"
    THEN [run EXCEPT !.video = video, !.pc = "done", !.outcome = "error"]
    ELSE IF video.status = "processing"
    THEN [run EXCEPT !.video = video, !.pc = "done", !.outcome = "pending"]
    ELSE [run EXCEPT !.video = video, !.pc = "publish"]

\* The branch after PUBLISH: an error outcome (or an exception, which the
\* stage boundary turns into one) ends the run, success goes on to NOTIFY.
after_publish(run, outcome) ==
    IF outcome.raised \/ outcome.status # "success"
    THEN [run EXCEPT !.publish = outcome, !.pc = "done", !.outcome = "error"]
    ELSE [run EXCEPT !.publish = outcome, !.pc = "notify"]

\* what post_video can do in one call, by whether the video file opens
PostVideoCalls ==
    [opens \in BOOLEAN |->
        {post_video(opens, answers, uploadAnswer, postAnswer, Null) :
            answers \in AccountsAnswerLists,
            uploadAnswer \in UploadAnswers, postAnswer \in PostAnswers}]

\* the call of post_video in which the file opens, the first method finds
\* one account and every request is answered with success
PostVideoAnswered ==
    post_video(TRUE,
               <<AccountsAnswer("ok", 1, 0), AccountsAnswer("status", 0, 0),
                 AccountsAnswer("status", 0, 0)>>,
               "id", "ok", Null)

\* the sheet with every row filled
FullSheet == SheetResult("ok", MaxSheetRows, 2..MaxSheetRows)

(***************************************************************************)
(* State.                                                                  *)
(***************************************************************************)
VARIABLES
    faults,        \* whether the disk and the services may fail and the
                   \* configuration may be any in this behaviour; if not,
                   \* every read, write and request succeeds
    store,         \* the state file
    now,           \* the clock datetime.now() reads
    runs,          \* the pipeline runs
    last_run,      \* the run that ended last, if the cursor was not written
                   \* by a direct call since
    api            \* the last direct call of a StateManager method since the
                   \* last run, and its result

vars == <<faults, store, now, runs, last_run, api>>

\* the inputs of a step: any of S, or those of good when nothing fails
May(S, good) == IF faults THEN S ELSE good

\* before: the state file the call found; ret: what get_current_row
\* returned (to the caller, or inside increment_row); logged: the row the
\* call logs as written
\* arg, out, returned: the argument and the result of a call of a pure
\* function
NoCall == [op |-> "none", before |-> MissingFile, readOk |-> TRUE,
           write |-> "ok", ret |-> Return(0), logged |-> 0,
           arg |-> Null, out |-> Null, returned |-> FALSE]

NoRun == [valid |-> FALSE, row |-> 0, outcome |-> "none"]

\* one run at a time: invocations are serialized by the scheduler
InitRuns == [r \in RunIds |-> IF r = 1 THEN NewRun("idle") ELSE NewRun("off")]

InitCommon ==
    /\ store \in InitialFiles
    /\ now = 1
    /\ last_run = NoRun
    /\ api = NoCall

Init == InitCommon /\ faults = TRUE /\ runs = InitRuns

NoRunInFlight == \A r \in RunIds : runs[r].pc \in {"off", "idle"}

(***************************************************************************)
(* Direct calls of the StateManager, between runs.                         *)
(***************************************************************************)
GetCurrentRow ==
    \E readOk \in May(BOOLEAN, {TRUE}) :
        /\ NoRunInFlight
        /\ api' = [NoCall EXCEPT !.op = "get_current_row", !.before = store,
                                 !.readOk = readOk,
                                 !.ret = get_current_row(store, readOk)]
        /\ UNCHANGED <<faults, store, now, runs, last_run>>

IncrementRow ==
    \E readOk \in May(BOOLEAN, {TRUE}), write \in May(WriteOutcomes, {"ok"}) :
        /\ NoRunInFlight
        /\ now <= MaxClock
        /\ LET res == increment_row(store, readOk, now, write)
           IN  /\ store' = res.file
               /\ api' = [NoCall EXCEPT !.op = "increment_row",
                                        !.before = store, !.readOk = readOk,
                                        !.write = write,
                                        !.ret = Return(res.current_row),
                                        !.logged = res.new_row]
        /\ now' = now + 1
        /\ last_run' = NoRun
        /\ UNCHANGED <<faults, runs>>

ResetToStart ==
    \E write \in May(WriteOutcomes, {"ok"}) :
        /\ NoRunInFlight
        /\ now <= MaxClock
        /\ store' = reset_to_start(store, now, write)
        /\ api' = [NoCall EXCEPT !.op = "reset_to_start", !.before = store,
                                 !.write = write, !.logged = BaseRow]
        /\ now' = now + 1
        /\ last_run' = NoRun
        /\ UNCHANGED <<faults, runs>>

\* The process is killed inside the _save_state of increment_row or of
\* reset_to_start; the file stays as the crash left it.
CrashInSaveState ==
    \E op \in {"increment_row", "reset_to_start"},
       readOk \in May(BOOLEAN, {TRUE}), written \in CrashPoints :
        /\ NoRunInFlight
        /\ now <= MaxClock
        /\ LET row == IF op = "increment_row"
                      THEN get_current_row(store, readOk).value + 1
                      ELSE BaseRow
           IN  /\ store' = crash_in_save(store, row, now, written)
               /\ api' = [NoCall EXCEPT !.op = "crash", !.before = store,
                                        !.readOk = readOk, !.logged = row]
        /\ now' = now + 1
        /\ last_run' = NoRun
        /\ UNCHANGED <<faults, runs>>

(***************************************************************************)
(* The stages of a run.                                                    *)
(***************************************************************************)
Enter(run, stage) == [run EXCEPT !.stages = Append(@, stage)]

\* READ_CURSOR
ReadCursor(r) ==
    \E readOk \in May(BOOLEAN, {TRUE}) :
        /\ runs[r].pc = "idle"
        /\ runs' = [runs EXCEPT ![r] =
                [Enter(@, "read") EXCEPT
                    !.pc = "fetch",
                    !.row = get_current_row(store, readOk).value,
                    !.start_store = store]]
        /\ api' = NoCall
        /\ UNCHANGED <<faults, store, now, last_run>>

\* FETCH_ROW: NotFound ends the run as a no-op
FetchRow(r) ==
    \E res \in May(SheetResults, {FullSheet}) :
        /\ runs[r].pc = "fetch"
        /\ LET product == get_product_data(runs[r].row, res)
               run == [Enter(runs[r], "fetch") EXCEPT
                          !.sheet_len = res.len,
                          !.sheet_last = LastPopulated(res),
                          !.product = product]
           IN  runs' = [runs EXCEPT ![r] =
                   IF product.present
                   THEN [run EXCEPT !.pc = "synthesize"]
                   ELSE [run EXCEPT !.pc = "done", !.outcome = "noop"]]
        /\ UNCHANGED <<faults, store, now, last_run, api>>

\* SYNTHESIZE_SCRIPT
SynthesizeScript(r) ==
    /\ runs[r].pc = "synthesize"
    /\ runs' = [runs EXCEPT ![r] =
            [Enter(@, "synthesize") EXCEPT
                !.pc = "produce",
                !.script = generate_script(runs[r].product)]]
    /\ UNCHANGED <<faults, store, now, last_run, api>>

\* PRODUCE_VIDEO: create_video up to its return or to the poll loop
ProduceVideo(r) ==
    \E test_mode \in May(BOOLEAN, {FALSE}), encrypted \in May(BOOLEAN, {FALSE}),
       tokenAnswer \in May(TokenAnswers, {"token"}),
       createAnswer \in May(CreateAnswers, {"job"}) :
        /\ runs[r].pc = "produce"
        /\ LET res == create_video(test_mode, encrypted, runs[r].access_token,
                                   tokenAnswer, createAnswer)
               run == [Enter(runs[r], "produce") EXCEPT
                          !.test_mode = test_mode,
                          !.encrypted = encrypted,
                          !.access_token = res.access_token,
                          !.video_requests = res.requests]
           IN  runs' = [runs EXCEPT ![r] =
                   IF res.done
                   THEN after_produce(run, res.video)
                   ELSE [run EXCEPT !.pc = "polling", !.elapsed = 0,
                                    !.last_poll = -1]]
        /\ UNCHANGED <<faults, store, now, last_run, api>>

\* PRODUCE_VIDEO: one test of the loop condition of
\* _wait_for_video_completion and, while the time is not up, one pass of
\* the loop; create_video returns when the loop does.
PollVideo(r) ==
    /\ runs[r].pc = "polling"
    /\ IF runs[r].elapsed < MaxWaitTime
       THEN \E answer \in May(JobAnswers, {"completed_url"}),
               latency \in May(Latencies, {0}) :
               LET res == poll_once(runs[r].elapsed, answer, latency)
               IN  runs' = [runs EXCEPT ![r] =
                       IF res.returned
                       THEN after_produce(
                                [@ EXCEPT !.elapsed = 0, !.last_poll = -1,
                                          !.job_answer = answer],
                                video_result("job", res.url))
                       ELSE [@ EXCEPT !.elapsed = res.elapsed,
                                      !.last_poll = runs[r].elapsed]]
       ELSE runs' = [runs EXCEPT ![r] =      \* "Video creation timed out"
               after_produce([@ EXCEPT !.elapsed = 0, !.last_poll = -1],
                             video_result("job", Null))]
    /\ UNCHANGED <<faults, store, now, last_run, api>>

\* PUBLISH: post_video with the video reference
Publish(r) ==
    \E opens \in May(CanOpen(video_path(runs[r].video)), {TRUE}) :
        \E res \in May(PostVideoCalls[opens], {PostVideoAnswered}) :
            /\ runs[r].pc = "publish"
            /\ runs' = [runs EXCEPT ![r] =
                    after_publish([Enter(@, "publish") EXCEPT
                                      !.opens = opens,
                                      !.headers = res.headers,
                                      !.found = res.found,
                                      !.requests = res.requests],
                                  res.outcome)]
            /\ UNCHANGED <<faults, store, now, last_run, api>>

\* NOTIFY: best effort, the outcome is ignored
Notify(r) ==
    \E webhook_url \in May(WebhookUrls, {"configured"}),
       answer \in May(WebhookAnswers, {"200"}) :
        /\ runs[r].pc = "notify"
        /\ LET res == send_to_zapier(webhook_url, answer)
           IN  runs' = [runs EXCEPT ![r] =
                   [Enter(@, "notify") EXCEPT
                       !.pc = "advance",
                       !.notify = [called |-> TRUE, status |-> "success",
                                   webhook_url |-> webhook_url,
                                   answer |-> IF res.requested THEN answer
                                              ELSE "none",
                                   raised |-> res.raised,
                                   ret |-> res.ret,
                                   requested |-> res.requested]]]
        /\ UNCHANGED <<faults, store, now, last_run, api>>

\* ADVANCE_CURSOR: the first two lines of increment_row, which read the
\* cursor and compute new_row
AdvanceCursor(r) ==
    \E readOk \in May(BOOLEAN, {TRUE}) :
        /\ runs[r].pc = "advance"
        /\ runs' = [runs EXCEPT ![r] =
                [Enter(@, "advance") EXCEPT
                    !.pc = "save",
                    !.new_row = get_current_row(store, readOk).value + 1]]
        /\ UNCHANGED <<faults, store, now, last_run, api>>

\* ADVANCE_CURSOR: the _save_state(new_row) of increment_row, then the run
\* has ended with success
SaveCursor(r) ==
    \E write \in May(WriteOutcomes, {"ok"}) :
        /\ runs[r].pc = "save"
        /\ now <= MaxClock
        /\ store' = _save_state(store, runs[r].new_row, now, write)
        /\ now' = now + 1
        /\ runs' = [runs EXCEPT ![r] =
                [@ EXCEPT !.pc = "done", !.outcome = "success"]]
        /\ UNCHANGED <<faults, last_run, api>>

\* the process of the run exits; the scheduler may start the next run
EndRun(r) ==
    /\ runs[r].pc = "done"
    /\ last_run' = [valid |-> TRUE, row |-> runs[r].row,
                    outcome |-> runs[r].outcome]
    /\ runs' = [runs EXCEPT ![r] = NewRun("idle")]
    /\ UNCHANGED <<faults, store, now, api>>

Run(r) ==
    \/ ReadCursor(r)
    \/ FetchRow(r)
    \/ SynthesizeScript(r)
    \/ ProduceVideo(r)
    \/ PollVideo(r)
    \/ Publish(r)
    \/ Notify(r)
    \/ AdvanceCursor(r)
    \/ SaveCursor(r)
    \/ EndRun(r)

Next ==
    \/ GetCurrentRow
    \/ IncrementRow
    \/ ResetToStart
    \/ CrashInSaveState
    \/ \E r \in RunIds : Run(r)

\* one run at a time, and the disk and the services may fail
Spec == Init /\ [][Next]_vars

\* The poll loop is sequential code of a running process: it goes on while
\* it can.
LiveSpec == Spec /\ \A r \in RunIds : WF_vars(PollVideo(r))

\* Two runs started against the same state file (two invocations of the
\* program that overlap), with nothing failing.
ConcInit ==
    /\ InitCommon
    /\ faults = FALSE
    /\ runs = [r \in RunIds |-> NewRun("idle")]

ConcSpec == ConcInit /\ [][Next]_vars

(***************************************************************************)
(* Calls of the pure functions: the argument is drawn first, the call      *)
(* returns the result.                                                     *)
(***************************************************************************)
Call(op, arg) == [NoCall EXCEPT !.op = op, !.arg = arg]

PureInit ==
    /\ faults = TRUE
    /\ store = MissingFile
    /\ now = 1
    /\ runs = [r \in RunIds |-> NewRun("off")]
    /\ last_run = NoRun
    /\ api \in {Call("generate_script", p) : p \in ProductRecords}
                \cup {Call("_extract_benefits_from_title", t) : t \in Titles}

GenerateScript ==
    /\ api.op = "generate_script" /\ ~api.returned
    /\ api' = [api EXCEPT !.out = generate_script(api.arg), !.returned = TRUE]
    /\ UNCHANGED <<faults, store, now, runs, last_run>>

ExtractBenefits ==
    /\ api.op = "_extract_benefits_from_title" /\ ~api.returned
    /\ api' = [api EXCEPT !.out = _extract_benefits_from_title(api.arg),
                          !.returned = TRUE]
    /\ UNCHANGED <<faults, store, now, runs, last_run>>

PureNext == GenerateScript \/ ExtractBenefits

PureSpec == PureInit /\ [][PureNext]_vars

(***************************************************************************)
(* Properties.                                                             *)
(***************************************************************************)
\* the cursor a state file holds: what a read that can open it returns
Cursor(file) == get_current_row(file, TRUE).value

Started(r) == runs[r].pc \notin {"off", "idle"}
Ended(r) == runs[r].pc = "done"
Entered(r, stage) == \E i \in 1..Len(runs[r].stages) : runs[r].stages[i] = stage

\* the requests of post_video to one endpoint
RequestsTo(r, req) ==
    {i \in 1..Len(runs[r].requests) : runs[r].requests[i].req = req}

\* C1: when a run has ended, the persisted cursor is one more than at its
\* start if and only if the video producer returned status completed and
\* the publisher returned status success; in every other outcome the
\* cursor is the one the run started with.
C1_CursorAdvancesIffSuccess ==
    \A r \in RunIds :
        Ended(r) =>
            LET ok == /\ runs[r].video.status = "completed"
                      /\ runs[r].publish.status = "success"
            IN  /\ ok <=> Cursor(store) = Cursor(runs[r].start_store) + 1
                /\ ~ok => Cursor(store) = Cursor(runs[r].start_store)

\* C2: get_current_row returns the persisted current_row when a readable
\* state record exists and 2 when the file is missing, unreadable, corrupt
\* or no record (or a record without current_row); it never raises.
C2_ReadReturnsCursorOrBase ==
    api.op = "get_current_row" =>
        /\ ~api.ret.raised
        /\ api.ret.value =
              IF api.before.kind = "record" /\ api.readOk
              THEN api.before.current_row
              ELSE 2

\* C2 witness: a read of a corrupt file has returned 2.
C2_Witness_CorruptFileRead ==
    /\ api.op = "get_current_row"
    /\ api.before.kind = "corrupt"
    /\ api.ret = Return(2)

\* C3: the cursor a run reads at its start is never smaller than the one
\* the previous run read (no direct reset or increment in between) and is
\* one more after a run that ended with success.
C3_CursorNeverDecreases ==
    \A r \in RunIds :
        (Started(r) /\ last_run.valid) =>
            /\ runs[r].row >= last_run.row
            /\ last_run.outcome = "success" => runs[r].row = last_run.row + 1

\* C4: after reset_to_start has returned, get_current_row returns 2,
\* whatever the state file held before.
C4_ResetYieldsBase ==
    api.op = "reset_to_start" => Cursor(store) = 2

\* C5: increment_row reads the cursor c (2 when there is no state) and
\* persists c + 1: a following get_current_row returns c + 1.
C5_IncrementPersistsNext ==
    api.op = "increment_row" =>
        /\ api.ret.value =
              IF api.before.kind = "record" /\ api.readOk
              THEN api.before.current_row
              ELSE 2
        /\ Cursor(store) = api.ret.value + 1

\* C6: a run whose row r >= 2 lies beyond the last populated row of the
\* sheet gets no product record and ends as a no-op: no script, no video,
\* no request of the producer or the publisher, no notification, and the
\* state file as the run found it.
C6_MissingRowIsNoOp ==
    \A r \in RunIds :
        (Entered(r, "fetch") /\ runs[r].row >= 2
            /\ runs[r].row > runs[r].sheet_last) =>
            /\ ~runs[r].product.present
            /\ Ended(r) /\ runs[r].outcome = "noop"
            /\ runs[r].stages = <<"read", "fetch">>
            /\ ~runs[r].script.present
            /\ ~runs[r].video.present /\ runs[r].video_requests = <<>>
            /\ runs[r].publish = NoOutcome /\ runs[r].requests = <<>>
            /\ ~runs[r].notify.called
            /\ store = runs[r].start_store

\* C6 witness: the sheet has data rows, the cursor points past them and
\* the run has ended.
C6_Witness_RowBeyondSheet ==
    \E r \in RunIds :
        /\ Ended(r) /\ runs[r].outcome = "noop"
        /\ runs[r].sheet_last = 2 /\ runs[r].row = 3
        /\ runs[r].start_store.kind = "record"

\* C7: a run in test mode whose row exists, with accounts to post to and
\* every request of the publisher answered with success, goes through all
\* stages in order and
\* ends with success: the publisher returns success, the notifier is
\* handed a payload with status success and the cursor is one more.
C7_OfflineRunSucceeds ==
    \A r \in RunIds :
        (Ended(r) /\ runs[r].product.present /\ runs[r].test_mode
            /\ runs[r].found > 0
            /\ \A i \in 1..Len(runs[r].requests) :
                  runs[r].requests[i].answer \in {"ok", "id"}) =>
            /\ runs[r].outcome = "success"
            /\ runs[r].stages = <<"read", "fetch", "synthesize", "produce",
                                  "publish", "notify", "advance">>
            /\ runs[r].publish.status = "success"
            /\ runs[r].notify.called /\ runs[r].notify.status = "success"
            /\ Cursor(store) = runs[r].row + 1

\* C8: when get_accounts finds no account (an empty list, or no method
\* answered with success), post_video returns status error, no request
\* went to /media or /posts, and the run ends with the state file as it
\* found it.
C8_NoAccountsIsError ==
    \A r \in RunIds :
        (Entered(r, "publish") /\ runs[r].found = 0) =>
            /\ ~runs[r].publish.raised
            /\ runs[r].publish.status = "error"
            /\ runs[r].publish.message # ""
            /\ RequestsTo(r, "media") = {} /\ RequestsTo(r, "posts") = {}
            /\ Ended(r) /\ runs[r].outcome = "error"
            /\ ~runs[r].notify.called
            /\ store = runs[r].start_store

\* C8 witness: all three authentication methods were tried and failed.
C8_Witness_AllMethodsFail ==
    \E r \in RunIds :
        /\ Entered(r, "publish")
        /\ Len(runs[r].requests) = 3
        /\ \A i \in 1..3 : runs[r].requests[i] =
                               Request("accounts", AuthMethods[i], "fail")
        /\ runs[r].publish.status = "error"

\* a request to /media was answered with a media id
Uploaded(r) ==
    \E i \in RequestsTo(r, "media") : runs[r].requests[i].answer = "id"

\* a request to /posts was answered with a failure: another status than
\* 200, an exception, or an object that holds "error"
PostRefused(r) ==
    \E i \in RequestsTo(r, "posts") :
        runs[r].requests[i].answer \in {"status", "exception", "error_key"}

\* C9: post_video returns success only if accounts were found, the upload
\* returned a media id and the post was created; no accounts, no media id
\* and a refused post each yield status error with a message, and no
\* request of a later step was made.
C9_SuccessNeedsAllSteps ==
    \A r \in RunIds :
        (Entered(r, "publish") /\ ~runs[r].publish.raised) =>
            /\ runs[r].publish.status \in {"success", "error"}
            /\ runs[r].publish.status = "success" =>
                  /\ runs[r].found > 0
                  /\ Uploaded(r)
                  /\ \E i \in RequestsTo(r, "posts") :
                        runs[r].requests[i].answer = "ok"
            /\ (runs[r].found = 0 \/ ~Uploaded(r) \/ PostRefused(r)) =>
                  /\ runs[r].publish.status = "error"
                  /\ runs[r].publish.message # ""
            /\ runs[r].found = 0 => RequestsTo(r, "media") = {}
            /\ ~Uploaded(r) => RequestsTo(r, "posts") = {}
            /\ Cardinality(RequestsTo(r, "media")) <= 1
            /\ Cardinality(RequestsTo(r, "posts")) <= 1

\* C9 witness: the media was uploaded and the post was refused.
C9_Witness_UploadedThenRefused ==
    \E r \in RunIds :
        /\ Uploaded(r) /\ PostRefused(r)
        /\ runs[r].publish.status = "error"

\* C10: every result of create_video has a status among completed,
\* processing and failed, and a video_url that is not None only with the
\* status completed.
C10_UrlOnlyWhenCompleted ==
    \A r \in RunIds :
        runs[r].video.present =>
            /\ runs[r].video.status \in {"completed", "processing", "failed"}
            /\ runs[r].video.video_url # Null => runs[r].video.status = "completed"

\* the poll loop of create_video has run and returned
Polled(r) == runs[r].video.present /\ runs[r].video.video_id = "job"

\* C11: in live mode a job whose polled status is failed is reported by
\* create_video with status failed and the run ends with an error; status
\* processing is not reported for a job that failed (a job that completed
\* without a url is the case of C10).
C11_FailedJobReportedFailed ==
    \A r \in RunIds :
        Polled(r) =>
            /\ runs[r].job_answer = "failed" =>
                  /\ runs[r].video.status = "failed"
                  /\ runs[r].outcome = "error"
            /\ runs[r].video.status = "processing" =>
                  runs[r].job_answer # "failed"

\* C12 (safety): while the poll loop runs, no status request went out once
\* 600 had elapsed, and the next test of the time comes at least 30 after
\* the last request went out.
PollLoopKeepsTime ==
    \A r \in RunIds :
        runs[r].pc = "polling" =>
            /\ runs[r].last_poll < 600
            /\ runs[r].last_poll >= 0 =>
                  runs[r].elapsed >= runs[r].last_poll + 30

\* C12 (result): a job the loop gave up on yields a result with status
\* processing, and the run ends pending, not with an error.
TimeoutYieldsProcessing ==
    \A r \in RunIds :
        (Polled(r) /\ runs[r].job_answer = "none") =>
            /\ runs[r].video.status = "processing"
            /\ runs[r].video.video_url = Null
            /\ Ended(r) /\ runs[r].outcome = "pending"

\* C12: the poll loop always terminates, whatever the status requests
\* answer and however slowly: it issues no request once the 600 have
\* elapsed, waits 30 between two checks, and a job still unresolved then
\* yields status processing.
C12_PollLoopTerminates ==
    /\ []PollLoopKeepsTime
    /\ []TimeoutYieldsProcessing
    /\ \A r \in RunIds : (runs[r].pc = "polling") ~> (runs[r].pc # "polling")

\* C12 witness: the loop gave up on a job and create_video returned status
\* processing.
C12_Witness_TimedOutProcessing ==
    \E r \in RunIds :
        /\ Polled(r) /\ runs[r].job_answer = "none"
        /\ runs[r].video.status = "processing"
        /\ runs[r].outcome = "pending"

\* C13: in live mode create_video never returns without a result: with
\* encrypted credentials, after a failed authentication and after a failed
\* submission (no poll loop was entered) it returns the simulated result, a
\* mock url with status completed.
C13_FailuresDegradeToSimulation ==
    \A r \in RunIds :
        (Entered(r, "produce") /\ runs[r].pc # "polling"
            /\ ~runs[r].test_mode /\ ~Polled(r)) =>
            /\ runs[r].video.present
            /\ runs[r].video.video_url = MockUrl
            /\ runs[r].video.status = "completed"

\* C14: send_to_zapier never raises and returns a boolean; with the
\* endpoint unset or the placeholder it makes no request and returns false;
\* with an endpoint it returns true exactly for a 200; whatever it returns,
\* the run goes on to advance the cursor and ends with success.
C14_NotifierIsBestEffort ==
    \A r \in RunIds :
        runs[r].notify.called =>
            /\ ~runs[r].notify.raised
            /\ runs[r].notify.ret \in BOOLEAN
            /\ runs[r].notify.webhook_url \in {"unset", "placeholder"} =>
                  ~runs[r].notify.requested /\ ~runs[r].notify.ret
            /\ runs[r].notify.webhook_url = "configured" =>
                  /\ runs[r].notify.requested
                  /\ runs[r].notify.ret <=> runs[r].notify.answer = "200"
            /\ runs[r].pc \in {"advance", "save", "done"}
            /\ Ended(r) => Entered(r, "advance") /\ runs[r].outcome = "success"

\* C14 witness: the delivery ended in an exception and the run went on to
\* write the next row.
C14_Witness_DeliveryFailedCursorAdvanced ==
    \E r \in RunIds :
        /\ runs[r].notify.called /\ runs[r].notify.answer = "exception"
        /\ ~runs[r].notify.ret
        /\ Ended(r) /\ Entered(r, "advance")
        /\ store.kind = "record" /\ store.current_row = runs[r].new_row

\* C15: no stage operation lets an exception escape: whatever its service
\* answers, post_video returns a status record and send_to_zapier a
\* boolean (get_product_data, generate_script and create_video are one try
\* block each and return a record or None).
C15_NoStageRaises ==
    \A r \in RunIds :
        /\ ~runs[r].publish.raised
        /\ ~runs[r].notify.raised
        /\ Entered(r, "publish") => runs[r].publish.status \in {"success", "error"}

\* C16: after the process died inside _save_state (before the open, after
\* the truncation, after a part of the text was written), get_current_row
\* returns the cursor committed before, the cursor that was being written,
\* or 2.
C16_CrashLeavesKnownCursor ==
    api.op = "crash" =>
        \A readOk \in BOOLEAN :
            LET got == get_current_row(store, readOk)
            IN  /\ ~got.raised
                /\ got.value \in {Cursor(api.before), api.logged, 2}

\* C16 witness: the process died after the open truncated a file that held
\* row 3; the file cannot be parsed and the cursor reads as 2.
C16_Witness_CrashAfterTruncate ==
    /\ api.op = "crash"
    /\ api.before.kind = "record" /\ api.before.current_row = 3
    /\ store = CorruptFile
    /\ Cursor(store) = 2

\* C17: for every product record, whichever of product_name, benefits and
\* key_ingredient it lacks, generate_script returns a complete script:
\* three scenes numbered 1, 2, 3 with durations 7, 18, 5, and a
\* total_duration of 30.
C17_ScriptAlwaysComplete ==
    (api.op = "generate_script" /\ api.returned) =>
        /\ api.out.present
        /\ Len(api.out.scenes) = 3
        /\ \A i \in 1..3 : api.out.scenes[i].scene_number = i
        /\ <<api.out.scenes[1].duration, api.out.scenes[2].duration,
             api.out.scenes[3].duration>> = <<7, 18, 5>>
        /\ api.out.total_duration = 30
        /\ Missing \notin {api.out.product_name, api.out.education[1],
                           api.out.education[2], api.out.education[3]}

\* C17 witness: a record without any of the three fields got its script.
C17_Witness_AllFieldsMissing ==
    /\ api.op = "generate_script" /\ api.returned
    /\ api.arg.product_name = Missing /\ api.arg.benefits = Missing
    /\ api.arg.key_ingredient = Missing
    /\ api.out.present

\* C18: whatever the state file held at the start and whatever reads,
\* advances and resets followed, the row get_current_row returns (to its
\* caller or inside increment_row) is at least 2.
C18_CursorAtLeastTwo ==
    api.op \in {"get_current_row", "increment_row"} => api.ret.value >= 2

\* a run is at work: it has read the cursor and has not ended
InFlight(r) == Started(r) /\ ~Ended(r)

\* C19: two runs against the same state file that overlap never both work
\* on the same row, and when both have ended with success the cursor is two
\* more than the smaller of the cursors they started with.
C19_OneRunPerRow ==
    \A r1, r2 \in RunIds :
        r1 # r2 =>
            /\ (InFlight(r1) /\ InFlight(r2)
                  /\ runs[r1].product.present /\ runs[r2].product.present) =>
                  runs[r1].product.row # runs[r2].product.row
            /\ (Ended(r1) /\ Ended(r2) /\ runs[r1].outcome = "success"
                  /\ runs[r2].outcome = "success") =>
                  Cursor(store) = Min(Cursor(runs[r1].start_store),
                                      Cursor(runs[r2].start_store)) + 2

\* The rule the benefits are to follow: the title split at every separator,
\* the trimmed fragments of length 20 to 150 that hold a keyword, the first
\* two of them, or the default sentence.
reference_benefits(title, default) ==
    LET fragments == [i \in 1..Len(title.chunks) |-> strip(title, i, i)]
        Qualifies(fragment) ==
            /\ has_keyword(title, fragment)
            /\ text_len(title, fragment) >= 20
            /\ text_len(title, fragment) <= 150
        kept == SelectSeq(fragments, Qualifies)
    IN  IF kept # <<>> THEN Benefits(Take(kept, 2), "")
        ELSE Benefits(<<>>, default)

\* C20: for every title the benefits are those of the reference rule, with
\* the default sentence of the empty title used as well when no fragment
\* qualifies.
C20_BenefitsFollowReference ==
    (api.op = "_extract_benefits_from_title" /\ api.returned) =>
        api.out = reference_benefits(
                      api.arg, _extract_benefits_from_title(EmptyTitle).default)

\* post_video has returned success
Published(r) ==
    /\ Entered(r, "publish")
    /\ ~runs[r].publish.raised
    /\ runs[r].publish.status = "success"

\* C21: on a successful publish with n accounts found, the one post is
\* addressed to the first min(n, 3) accounts in the order of discovery, and
\* the outcome holds one record for each of them, in that order, and none
\* for an account beyond the cap.
C21_PostAddressedToFirstAccounts ==
    \A r \in RunIds :
        Published(r) =>
            LET n == Min(runs[r].found, 3)
                posts == runs[r].publish.posts
            IN  /\ Cardinality(RequestsTo(r, "posts")) = 1
                /\ \A j \in RequestsTo(r, "posts") :
                      /\ Len(runs[r].requests[j].accounts) = n
                      /\ \A i \in 1..n : runs[r].requests[j].accounts[i] = i
                /\ Len(posts) = n
                /\ \A i \in 1..n : posts[i].account = i
                /\ runs[r].publish.accounts_used = n

\* C21 witness: four accounts were found and the outcome holds three
\* records.
C21_Witness_MoreAccountsThanCap ==
    \E r \in RunIds :
        /\ Published(r)
        /\ runs[r].found = 4
        /\ Len(runs[r].publish.posts) = 3

\* the step of post_video a request belongs to
StepOf(req) ==
    CASE req = "accounts" -> 1
      [] req = "media" -> 2
      [] req = "posts" -> 3

\* C22: the requests of one call of post_video go out in the order
\* discovery, upload, post; there is at most one upload and at most one
\* post, and a post only after an upload of the same call that returned a
\* media id.
C22_RequestsInFixedOrder ==
    \A r \in RunIds :
        Entered(r, "publish") =>
            LET q == runs[r].requests
            IN  /\ q # <<>> /\ q[1].req = "accounts"
                /\ \A i, j \in 1..Len(q) :
                      i < j => StepOf(q[i].req) <= StepOf(q[j].req)
                /\ Cardinality(RequestsTo(r, "media")) <= 1
                /\ Cardinality(RequestsTo(r, "posts")) <= 1
                /\ \A j \in RequestsTo(r, "posts") :
                      \E i \in RequestsTo(r, "media") :
                          i < j /\ q[i].answer = "id"

\* C22 witness: a call in which the second method found the accounts, the
\* media was uploaded and the post was sent.
C22_Witness_AllThreeSteps ==
    \E r \in RunIds :
        /\ Entered(r, "publish")
        /\ Len(runs[r].requests) = 4
        /\ runs[r].requests[2].req = "accounts"
        /\ runs[r].requests[3].req = "media"
        /\ runs[r].requests[4].req = "posts"

\* C23: after a run that ended with success and whose write reached the
\* disk, the persisted cursor is the row the run fetched plus 1, whatever
\* the read inside increment_row found (the run read a row >= 2).
C23_CursorFollowsFetchedRow ==
    \A r \in RunIds :
        (Ended(r) /\ runs[r].outcome = "success" /\ runs[r].row >= 2
            /\ store = StateFile("record", runs[r].new_row, now - 1)) =>
            store.current_row = runs[r].product.row + 1

\* C24: when the write of _save_state fails, increment_row and
\* reset_to_start leave the state file as it was, and the row they report
\* as written ("Advanced from row c to row n", "Reset to row 2") is the row
\* a following get_current_row returns.
C24_FailedWriteIsReported ==
    api.op \in {"increment_row", "reset_to_start"} =>
        /\ api.write # "ok" => store = api.before
        /\ Cursor(store) = api.logged

\* C25: the discovery requests of a call go out with Bearer, API-Key,
\* X-API-Key in this order, none after the first that was answered with
\* success, and the upload and the post go out with the scheme of that
\* one.
C25_OneSchemePerCall ==
    \A r \in RunIds :
        Entered(r, "publish") =>
            LET q == runs[r].requests
                k == Cardinality(RequestsTo(r, "accounts"))
            IN  /\ k \in 1..3
                /\ \A i \in 1..k :
                      /\ q[i].req = "accounts"
                      /\ q[i].auth = AuthMethods[i]
                      /\ q[i].answer = "ok" => i = k
                /\ \A j \in RequestsTo(r, "media") \cup RequestsTo(r, "posts") :
                      /\ q[k].answer = "ok"
                      /\ q[j].auth = q[k].auth

\* C26: in live mode a job is submitted and polled only with an access
\* token held: the handshake comes before the submission, and a handshake
\* that delivers no token (another status, an exception, a 200 without
\* access_token) prevents the submission.
C26_SubmitOnlyWithToken ==
    \A r \in RunIds :
        (Entered(r, "produce") /\ ~runs[r].test_mode /\ ~runs[r].encrypted) =>
            LET q == runs[r].video_requests
                submitted == \E i \in 1..Len(q) : q[i] = "video/create"
            IN  /\ submitted => q[1] = "oauth2/token"
                /\ (submitted \/ runs[r].pc = "polling" \/ Polled(r)) =>
                      runs[r].access_token # Null

====
